---- MODULE Spec2Model ----
(***************************************************************************)
(* The leave-request engine of the EMS backend: the Leave model            *)
(* (src/models/Leave.js), the leave handlers createLeave,                  *)
(* updateLeaveStatus, updateLeave and deleteLeave                          *)
(* (src/controllers/attendanceController.js), the route table              *)
(* (src/unnamed/part_003) and the request validators                       *)
(* (src/unnamed/part_007); and the clockIn handler of the same controller  *)
(* with the Attendance model (src/unnamed/part_004).                       *)
(*                                                                         *)
(* A document is a function from the names of the fields it has to their   *)
(* values: a field that was never set (approvedDate of a pending request)  *)
(* is not in its domain, as in a Mongoose document.  A request body is a   *)
(* function of the same kind: a key the caller did not send is absent.     *)
(* Dates are millisecond timestamps, as in a JavaScript Date.              *)
(* The fields the handlers only copy (workArrangement, coveringEmployee,   *)
(* emergencyContact, documents, notes) take part in no decision and are    *)
(* left out; the reason is kept as its length, the only thing validated.   *)
(***************************************************************************)
EXTENDS Integers, FiniteSets, Sequences, TLC

\* ------------------------------------------------------------- bounds
MaxLeaves == 2      \* ids handed out to new Leave documents
MaxDay == 3         \* calendar days a request body may name
MaxCalls == 3       \* API calls handled
MaxInflight == 2    \* handlers running at once, when calls interleave
MaxSpan == 5        \* calendar days the day count is computed over
MaxClock == 3       \* half days the server's clock runs

\* ---------------------------------------------------------- constants
MsPerDay == 1000 * 60 * 60 * 24
MinReasonLen == 10
MaxReasonLen == 500
MaxTotalDays == 365
MaxRejectionLen == 500
MaxLocationLen == 100

LeaveTypes == {"annual", "sick", "maternity", "paternity", "emergency", "other"}
Statuses == {"pending", "approved", "rejected", "cancelled"}
\* the decisions with cancelled among them
DecisionStatusesAndCancelled == {"approved", "rejected", "cancelled"}

DecisionStatuses == {"approved", "rejected"}

\* The authenticated users (req.user) and their role.  Both may own requests, so
\* emp1 is the caller who is neither owner nor admin of a request of admin1.
Users == {"emp1", "admin1"}
role(u) == IF u = "admin1" THEN "admin" ELSE "employee"

Ids == 1..MaxLeaves
Day(d) == d * MsPerDay
Dates == {Day(d) : d \in 1..MaxDay}

\* leaves: the Leave collection; nextId: the next _id; calls: calls begun;
\* res: the call last answered; inflight: the handlers suspended at an await
\* between their reads and their write, by call number
\* attendance: the Attendance collection, by _id; clock: the time of day of the
\* server, in half days
VARIABLES leaves, nextId, calls, res, inflight, attendance, clock
vars == <<leaves, nextId, calls, res, inflight, attendance, clock>>

\* ------------------------------------------------------------ helpers
has(doc, f) == f \in DOMAIN doc
set(doc, f, v) == (f :> v) @@ doc
unset(doc, f) == [k \in DOMAIN doc \ {f} |-> doc[k]]
\* an object with none of the fields: an empty body, or a `this` that is not a document
NoBody == [k \in {} |-> 0]

abs(x) == IF x < 0 THEN 0 - x ELSE x
ceilDiv(a, b) == (a + b - 1) \div b

\* new Date(): the time of the call; only whether a timestamp is set is modelled
now == "now"

\* ------------------------------------------------- Leave.js: the model
\* endDate's validator: function(value) { return value >= this.startDate }.
\* thisDoc is what `this` is bound to; a `this` without startDate gives
\* value >= undefined, which is false in JavaScript.
endDateValidator(value, thisDoc) ==
  /\ has(thisDoc, "startDate")
  /\ value >= thisDoc.startDate

\* Document validation, run by save() before the pre('save') hooks, on the
\* document itself (`this` is the document).
validateDoc(doc) ==
  /\ has(doc, "employee")
  /\ has(doc, "leaveType") /\ doc.leaveType \in LeaveTypes
  /\ has(doc, "startDate")
  /\ has(doc, "endDate") /\ endDateValidator(doc.endDate, doc)
  /\ has(doc, "totalDays") /\ 2 * doc.totalDays >= 1 /\ doc.totalDays =< MaxTotalDays
  /\ has(doc, "reason") /\ doc.reason >= 1 /\ doc.reason =< MaxReasonLen
  /\ doc.status \in Statuses
  /\ (has(doc, "rejectionReason") => doc.rejectionReason =< MaxRejectionLen)

\* a hook that leaves totalDays as it is
preSaveKeeps(doc) == doc

\* pre('save'): totalDays is recomputed from the dates
preSave(doc) ==
  IF has(doc, "startDate") /\ has(doc, "endDate")
  THEN set(doc, "totalDays", ceilDiv(abs(doc.endDate - doc.startDate), MsPerDay) + 1)
  ELSE doc

\* the clauses with strict comparisons: a shared endpoint day is missed
overlapClausesStrict(other, this) ==
  \/ (other.startDate < this.startDate /\ other.endDate > this.startDate)
  \/ (other.startDate < this.endDate /\ other.endDate > this.endDate)
  \/ (other.startDate >= this.startDate /\ other.endDate =< this.endDate)

\* the first two clauses alone: a stored interval inside the candidate is missed
overlapClausesTwo(other, this) ==
  \/ (other.startDate =< this.startDate /\ other.endDate >= this.startDate)
  \/ (other.startDate =< this.endDate /\ other.endDate >= this.endDate)

\* checkOverlap's three $or clauses, `other` a stored document, `this` the candidate
overlapClauses(other, this) ==
  \/ (other.startDate =< this.startDate /\ other.endDate >= this.startDate)
  \/ (other.startDate =< this.endDate /\ other.endDate >= this.endDate)
  \/ (other.startDate >= this.startDate /\ other.endDate =< this.endDate)

checkOverlap(this) ==
  \E i \in DOMAIN leaves :
    /\ leaves[i].employee = this.employee
    /\ i # this._id
    /\ leaves[i].status \in {"pending", "approved"}
    /\ overlapClauses(leaves[i], this)

\* ----------------------------------------------- part_007: validators
\* the rules without the custom check of endDate against startDate
validateLeaveApplicationNoOrder(body) ==
  /\ has(body, "leaveType") /\ body.leaveType \in LeaveTypes
  /\ has(body, "startDate")
  /\ has(body, "endDate")
  /\ has(body, "reason") /\ body.reason >= MinReasonLen /\ body.reason =< MaxReasonLen

\* body('reason') is modelled by the length of the trimmed text
validateLeaveApplication(body) ==
  /\ has(body, "leaveType") /\ body.leaveType \in LeaveTypes
  /\ has(body, "startDate")
  /\ has(body, "endDate")
  /\ ~(body.endDate < body.startDate)
  /\ has(body, "reason") /\ body.reason >= MinReasonLen /\ body.reason =< MaxReasonLen

\* the rules without isIn on the status
validateLeaveStatusUpdateAnyStatus(body) ==
  /\ has(body, "status")
  /\ (has(body, "rejectionReason") => body.rejectionReason =< MaxRejectionLen)

validateLeaveStatusUpdate(body) ==
  /\ has(body, "status") /\ body.status \in DecisionStatuses
  /\ (has(body, "rejectionReason") => body.rejectionReason =< MaxRejectionLen)

\* authorize('admin'), a middleware of the route table
authorize(roles, user) == role(user) \in roles

\* ------------------------------------------------------------ replies
\* The call last handled and its answer: the handler of the route, req.user,
\* the id the call is about (req.params.id, or the _id of the document a
\* create built), and res.status(code).json({ error })
reply(op, actor, id, code, error) ==
  [op |-> op, actor |-> actor, id |-> id, code |-> code, error |-> error]

Init ==
  /\ leaves = <<>>
  /\ nextId = 1
  /\ calls = 0
  /\ res = reply("none", "emp1", 0, 0, "none")
  /\ inflight = <<>>
  /\ attendance = <<>>
  /\ clock = 0

\* ---------------------------------------------------------- createLeave
\* the count without the + 1: the days between the two dates
createTotalDaysExclusive(startDate, endDate) ==
  ceilDiv(abs(endDate - startDate), MsPerDay)

createTotalDays(startDate, endDate) ==
  ceilDiv(abs(endDate - startDate), MsPerDay) + 1

\* a document that takes its employee from the body when the body names one
newLeaveOfBody(actor, body, id) ==
  [_id |-> id, employee |-> IF has(body, "employee") THEN body.employee ELSE actor,
   leaveType |-> body.leaveType,
   startDate |-> body.startDate, endDate |-> body.endDate,
   totalDays |-> createTotalDays(body.startDate, body.endDate),
   reason |-> body.reason, status |-> "pending", appliedDate |-> now]

\* new Leave({ employee: req.user._id, ... }): the body's own keys are read one
\* by one, an `employee` key of the body is never read
newLeave(actor, body, id) ==
  [_id |-> id, employee |-> actor, leaveType |-> body.leaveType,
   startDate |-> body.startDate, endDate |-> body.endDate,
   totalDays |-> createTotalDays(body.startDate, body.endDate),
   reason |-> body.reason, status |-> "pending", appliedDate |-> now]

createLeave(actor, body) ==
  /\ calls' = calls + 1
  /\ IF ~validateLeaveApplication(body)
     THEN /\ res' = reply("createLeave", actor, nextId, 400, "Validation failed")
          /\ UNCHANGED <<leaves, nextId>>
     ELSE LET leave == newLeave(actor, body, nextId) IN
          IF checkOverlap(leave)
          THEN /\ res' = reply("createLeave", actor, nextId, 400, "overlapping")
               /\ UNCHANGED <<leaves, nextId>>
          ELSE IF ~validateDoc(leave)
          THEN /\ res' = reply("createLeave", actor, nextId, 500, "Server error")
               /\ UNCHANGED <<leaves, nextId>>
          ELSE /\ leaves' = (nextId :> preSave(leave)) @@ leaves
               /\ nextId' = nextId + 1
               /\ res' = reply("createLeave", actor, nextId, 201, "none")

\* ---------------------------------------------------- updateLeaveStatus
\* PUT /:id/status: authorize('admin'), validateObjectId,
\* validateLeaveStatusUpdate, then the handler
decide(leave, actor, body) ==
  LET l1 == set(leave, "status", body.status) IN
  IF body.status = "approved"
  THEN set(set(l1, "approvedDate", now), "approvedBy", actor)
  ELSE IF body.status = "rejected"
  THEN LET l2 == set(set(l1, "rejectedDate", now), "rejectedBy", actor) IN
       IF has(body, "rejectionReason")
       THEN set(l2, "rejectionReason", body.rejectionReason)
       ELSE unset(l2, "rejectionReason")
  ELSE l1

updateLeaveStatus(actor, id, body) ==
  /\ calls' = calls + 1
  /\ UNCHANGED nextId
  /\ IF ~authorize({"admin"}, actor)
     THEN /\ res' = reply("updateLeaveStatus", actor, id, 403, "not authorized")
          /\ UNCHANGED leaves
     ELSE IF ~validateLeaveStatusUpdate(body)
     THEN /\ res' = reply("updateLeaveStatus", actor, id, 400, "Validation failed")
          /\ UNCHANGED leaves
     ELSE IF id \notin DOMAIN leaves
     THEN /\ res' = reply("updateLeaveStatus", actor, id, 404, "not found")
          /\ UNCHANGED leaves
     ELSE LET leave == decide(leaves[id], actor, body) IN
          IF ~validateDoc(leave)
          THEN /\ res' = reply("updateLeaveStatus", actor, id, 500, "Server error")
               /\ UNCHANGED leaves
          ELSE /\ leaves' = [leaves EXCEPT ![id] = preSave(leave)]
               /\ res' = reply("updateLeaveStatus", actor, id, 200, "none")

\* ----------------------------------------------------------- updateLeave
\* the status guard testing for one processed status only
isProcessedRejectedOnly(leave) == leave.status = "rejected"

\* the status guard testing for approved only
isProcessedApprovedOnly(leave) == leave.status = "approved"

\* leave.status !== 'pending'
isProcessed(leave) == leave.status # "pending"

\* the ownership test without the admin exemption
notAuthorizedOwnerOnly(actor, leave) == leave.employee # actor

\* req.user.role !== 'admin' && leave.employee.toString() !== req.user._id.toString()
notAuthorized(actor, leave) == role(actor) # "admin" /\ leave.employee # actor

\* the date guard looking at startDate only
datesChangedStartOnly(fields) == has(fields, "startDate")

\* fieldsToUpdate.startDate || fieldsToUpdate.endDate
datesChanged(fields) == has(fields, "startDate") \/ has(fields, "endDate")

\* the updatable keys with employee and appliedDate among them
UpdatableFieldsAndOwner ==
  {"leaveType", "startDate", "endDate", "reason", "employee", "appliedDate"}

\* the updatable keys with status among them
UpdatableFieldsAndStatus ==
  {"leaveType", "startDate", "endDate", "reason", "status"}

UpdatableFields ==
  {"leaveType", "startDate", "endDate", "reason"}

\* fieldsToUpdate: the updatable keys of the body, the undefined ones removed
fieldsToUpdate(body) ==
  [k \in DOMAIN body \cap UpdatableFields |-> body[k]]

\* findByIdAndUpdate(..., { runValidators: true }): update validators run on
\* the paths of the update only, and `this` is the query, not the document
validateUpdate(fields) ==
  /\ (has(fields, "leaveType") => fields.leaveType \in LeaveTypes)
  /\ (has(fields, "endDate") => endDateValidator(fields.endDate, NoBody))
  /\ (has(fields, "reason") => fields.reason >= 1 /\ fields.reason =< MaxReasonLen)

updateLeave(actor, id, body) ==
  /\ calls' = calls + 1
  /\ UNCHANGED nextId
  /\ IF id \notin DOMAIN leaves
     THEN /\ res' = reply("updateLeave", actor, id, 404, "not found")
          /\ UNCHANGED leaves
     ELSE IF isProcessed(leaves[id])
     THEN /\ res' = reply("updateLeave", actor, id, 400, "processed")
          /\ UNCHANGED leaves
     ELSE IF notAuthorized(actor, leaves[id])
     THEN /\ res' = reply("updateLeave", actor, id, 403, "not authorized")
          /\ UNCHANGED leaves
     ELSE LET fields == fieldsToUpdate(body)
              testLeave == fields @@ leaves[id] IN
          IF datesChanged(fields) /\ checkOverlap(testLeave)
          THEN /\ res' = reply("updateLeave", actor, id, 400, "overlapping")
               /\ UNCHANGED leaves
          ELSE IF ~validateUpdate(fields)
          THEN /\ res' = reply("updateLeave", actor, id, 500, "Server error")
               /\ UNCHANGED leaves
          ELSE /\ leaves' = [leaves EXCEPT ![id] = fields @@ leaves[id]]
               /\ res' = reply("updateLeave", actor, id, 200, "none")

\* ----------------------------------------------------------- deleteLeave
\* the handler with the ownership test before the status test
deleteLeaveOwnerFirst(actor, id) ==
  /\ calls' = calls + 1
  /\ UNCHANGED nextId
  /\ IF id \notin DOMAIN leaves
     THEN /\ res' = reply("deleteLeave", actor, id, 404, "not found")
          /\ UNCHANGED leaves
     ELSE IF notAuthorized(actor, leaves[id])
     THEN /\ res' = reply("deleteLeave", actor, id, 403, "not authorized")
          /\ UNCHANGED leaves
     ELSE IF isProcessed(leaves[id])
     THEN /\ res' = reply("deleteLeave", actor, id, 400, "processed")
          /\ UNCHANGED leaves
     ELSE /\ leaves' = [i \in DOMAIN leaves \ {id} |-> leaves[i]]
          /\ res' = reply("deleteLeave", actor, id, 200, "none")

deleteLeave(actor, id) ==
  /\ calls' = calls + 1
  /\ UNCHANGED nextId
  /\ IF id \notin DOMAIN leaves
     THEN /\ res' = reply("deleteLeave", actor, id, 404, "not found")
          /\ UNCHANGED leaves
     ELSE IF isProcessed(leaves[id])
     THEN /\ res' = reply("deleteLeave", actor, id, 400, "processed")
          /\ UNCHANGED leaves
     ELSE IF notAuthorized(actor, leaves[id])
     THEN /\ res' = reply("deleteLeave", actor, id, 403, "not authorized")
          /\ UNCHANGED leaves
     ELSE /\ leaves' = [i \in DOMAIN leaves \ {id} |-> leaves[i]]
          /\ res' = reply("deleteLeave", actor, id, 200, "none")

\* ------------------------------------------- Leave.getLeaveStats (static)
\* args holds the arguments that are given; an argument left out or null is
\* absent.  The window test taken as "overlaps the window":
statsMatchOverlapping(l, args) ==
  /\ has(args, "employeeId") => l.employee = args.employeeId
  /\ (has(args, "startDate") /\ has(args, "endDate"))
       => (l.startDate =< args.endDate /\ l.endDate >= args.startDate)

\* $match: matchStage.employee if employeeId; matchStage.startDate $gte and
\* matchStage.endDate $lte if startDate && endDate
statsMatch(l, args) ==
  /\ has(args, "employeeId") => l.employee = args.employeeId
  /\ (has(args, "startDate") /\ has(args, "endDate"))
       => (l.startDate >= args.startDate /\ l.endDate =< args.endDate)

\* $sum of an accumulator expression over the documents of the group
RECURSIVE sum(_, _)
sum(docs, f) ==
  IF docs = {} THEN 0
  ELSE LET i == CHOOSE x \in docs : TRUE IN f[i] + sum(docs \ {i}, f)

\* $cond: [{ $eq: ['$status', status] }, value, 0]
cond(l, status, value) == IF l.status = status THEN value ELSE 0

NoStats ==
  [totalLeaves |-> 0, approvedLeaves |-> 0, pendingLeaves |-> 0, rejectedLeaves |-> 0,
   totalDays |-> 0, approvedDays |-> 0, pendingDays |-> 0]

\* aggregate([$match, $group with _id null]) gives one group if a document
\* matches and no group otherwise; result[0] || { all 0 }
getLeaveStats(args) ==
  LET docs == {i \in DOMAIN leaves : statsMatch(leaves[i], args)}
      result ==
        IF docs = {} THEN <<>>
        ELSE <<[totalLeaves |-> sum(docs, [i \in docs |-> 1]),
                approvedLeaves |-> sum(docs, [i \in docs |-> cond(leaves[i], "approved", 1)]),
                pendingLeaves |-> sum(docs, [i \in docs |-> cond(leaves[i], "pending", 1)]),
                rejectedLeaves |-> sum(docs, [i \in docs |-> cond(leaves[i], "rejected", 1)]),
                totalDays |-> sum(docs, [i \in docs |-> leaves[i].totalDays]),
                approvedDays |->
                  sum(docs, [i \in docs |-> cond(leaves[i], "approved", leaves[i].totalDays)]),
                pendingDays |->
                  sum(docs, [i \in docs |-> cond(leaves[i], "pending", leaves[i].totalDays)])]>>
  IN IF Len(result) > 0 THEN result[1] ELSE NoStats

\* a call of Leave.getLeaveStats; its value is the data of the answer
leaveStats(args) ==
  /\ calls' = calls + 1
  /\ res' = reply("getLeaveStats", "admin1", 0, 200, "none") @@ [data |-> getLeaveStats(args)]
  /\ UNCHANGED <<leaves, nextId, inflight>>

\* ------------------------------------------------------- request bodies
\* a key the caller may send or leave out, and the bodies made of such keys
Opt(k, vals) == {NoBody} \cup {(k :> v) : v \in vals}
Join(A, B) == {a @@ b : a \in A, b \in B}

CreateBodies ==
  [leaveType : {"annual"}, startDate : Dates, endDate : Dates, reason : {MinReasonLen}]
    \cup [leaveType : {"bogus"}, startDate : {Day(1)}, endDate : {Day(1)}, reason : {MinReasonLen}]
    \cup [leaveType : {"annual"}, startDate : {Day(1)}, endDate : {Day(1)},
          reason : {MinReasonLen - 1, MaxReasonLen + 1}]
    \cup {[leaveType |-> "annual", startDate |-> Day(1), endDate |-> Day(1),
            reason |-> MinReasonLen, employee |-> "admin1",
            status |-> "cancelled"]}

StatusBodies ==
  {[status |-> "approved"], [status |-> "rejected"], [status |-> "pending"],
   [status |-> "cancelled"],
   [status |-> "rejected", rejectionReason |-> MinReasonLen]}

\* every choice of dates, a new leaveType alone or with a new startDate, and
\* a body that names a status, an employee and an appliedDate
UpdateBodies ==
  Join(Opt("startDate", Dates), Opt("endDate", Dates))
    \cup Join({[leaveType |-> "sick"]}, Opt("startDate", Dates))
    \cup {[leaveType |-> "bogus"],
           [status |-> "approved", employee |-> "admin1", appliedDate |-> "later"]}

\* The server handles one call at a time, each handler run from its first
\* line to its answer with no other call in between; a run is cut after
\* MaxCalls calls and hands out at most MaxLeaves ids.
Next ==
  \/ \E actor \in Users, body \in CreateBodies :
       /\ calls < MaxCalls /\ nextId =< MaxLeaves /\ createLeave(actor, body)
       /\ UNCHANGED <<inflight, attendance, clock>>
  \/ \E actor \in Users, id \in Ids, body \in StatusBodies :
       /\ calls < MaxCalls /\ updateLeaveStatus(actor, id, body)
       /\ UNCHANGED <<inflight, attendance, clock>>
  \/ \E actor \in Users, id \in Ids, body \in UpdateBodies :
       /\ calls < MaxCalls /\ updateLeave(actor, id, body)
       /\ UNCHANGED <<inflight, attendance, clock>>
  \/ \E actor \in Users, id \in Ids :
       /\ calls < MaxCalls /\ deleteLeave(actor, id)
       /\ UNCHANGED <<inflight, attendance, clock>>

Spec == Init /\ [][Next]_vars

\* the windows of a statistics call: none, one bound only, the first two
\* days, the days from day 2 on, every day
StatsWindows ==
  {NoBody, [startDate |-> Day(2)], [endDate |-> Day(2)],
   [startDate |-> Day(1), endDate |-> Day(2)],
   [startDate |-> Day(2), endDate |-> Day(MaxDay)],
   [startDate |-> Day(1), endDate |-> Day(MaxDay)]}

\* for every employee or for the employee emp1
StatsArgs == Join(Opt("employeeId", {"emp1"}), StatsWindows)

\* The server with calls of Leave.getLeaveStats among the other calls.
NextStats ==
  \/ Next
  \/ \E args \in StatsArgs :
       calls < MaxCalls /\ leaveStats(args) /\ UNCHANGED <<attendance, clock>>

SpecStats == Init /\ [][NextStats]_vars

\* ------------------------------------------------- interleaved handlers
\* The handlers are async functions: a handler runs alone up to an await of
\* the database and other handlers run until it resumes.  A handler is cut
\* here in two steps, its reads (findById / checkOverlap, with the tests
\* made on what was read) and its write (save / findByIdAndUpdate /
\* deleteOne); a handler that answers before its write is one step.
suspend(c, call) == inflight' = (c :> call) @@ inflight
resume(c) == inflight' = [k \in DOMAIN inflight \ {c} |-> inflight[k]]

\* createLeave up to `await leave.checkOverlap()`; new Leave() gives the _id
createLeaveCheck(actor, body) ==
  /\ calls' = calls + 1
  /\ IF ~validateLeaveApplication(body)
     THEN /\ res' = reply("createLeave", actor, nextId, 400, "Validation failed")
          /\ UNCHANGED <<leaves, nextId, inflight>>
     ELSE LET leave == newLeave(actor, body, nextId) IN
          IF checkOverlap(leave)
          THEN /\ res' = reply("createLeave", actor, nextId, 400, "overlapping")
               /\ UNCHANGED <<leaves, nextId, inflight>>
          ELSE /\ nextId' = nextId + 1
               /\ suspend(calls + 1, [op |-> "createLeave", actor |-> actor,
                                       id |-> nextId, leave |-> leave])
               /\ UNCHANGED <<leaves, res>>

\* a save that looks for an overlap once more, in one step with the insert
createLeaveSaveChecked(c) ==
  /\ c \in DOMAIN inflight /\ inflight[c].op = "createLeave"
  /\ LET call == inflight[c] IN
     IF checkOverlap(call.leave) \/ ~validateDoc(call.leave)
     THEN /\ res' = reply("createLeave", call.actor, call.id, 400, "overlapping")
          /\ UNCHANGED leaves
     ELSE /\ leaves' = (call.id :> preSave(call.leave)) @@ leaves
          /\ res' = reply("createLeave", call.actor, call.id, 201, "none")
  /\ resume(c)
  /\ UNCHANGED <<nextId, calls>>

\* createLeave from `await leave.save()` on
createLeaveSave(c) ==
  /\ c \in DOMAIN inflight /\ inflight[c].op = "createLeave"
  /\ LET call == inflight[c] IN
     IF ~validateDoc(call.leave)
     THEN /\ res' = reply("createLeave", call.actor, call.id, 500, "Server error")
          /\ UNCHANGED leaves
     ELSE /\ leaves' = (call.id :> preSave(call.leave)) @@ leaves
          /\ res' = reply("createLeave", call.actor, call.id, 201, "none")
  /\ resume(c)
  /\ UNCHANGED <<nextId, calls>>

\* updateLeaveStatus up to the end of `await Leave.findById`
updateLeaveStatusFind(actor, id, body) ==
  /\ calls' = calls + 1
  /\ UNCHANGED <<leaves, nextId>>
  /\ IF ~authorize({"admin"}, actor)
     THEN /\ res' = reply("updateLeaveStatus", actor, id, 403, "not authorized")
          /\ UNCHANGED inflight
     ELSE IF ~validateLeaveStatusUpdate(body)
     THEN /\ res' = reply("updateLeaveStatus", actor, id, 400, "Validation failed")
          /\ UNCHANGED inflight
     ELSE IF id \notin DOMAIN leaves
     THEN /\ res' = reply("updateLeaveStatus", actor, id, 404, "not found")
          /\ UNCHANGED inflight
     ELSE /\ suspend(calls + 1, [op |-> "updateLeaveStatus", actor |-> actor, id |-> id,
                                  body |-> body, leave |-> leaves[id]])
          /\ UNCHANGED res

\* save() of a document that was read: the paths that differ from what was
\* read are $set, the paths that were removed are $unset, on the stored
\* document as it is now
savePaths(stored, read, saved) ==
  LET changed == {k \in DOMAIN saved : ~has(read, k) \/ read[k] # saved[k]}
      removed == DOMAIN read \ DOMAIN saved IN
  [k \in (DOMAIN stored \cup changed) \ removed |->
     IF k \in changed THEN saved[k] ELSE stored[k]]

\* updateLeaveStatus from the assignments and `await leave.save()` on; save()
\* of a document that is no longer stored throws (DocumentNotFoundError)
updateLeaveStatusSave(c) ==
  /\ c \in DOMAIN inflight /\ inflight[c].op = "updateLeaveStatus"
  /\ LET call == inflight[c]
         leave == decide(call.leave, call.actor, call.body) IN
     IF ~validateDoc(leave) \/ call.id \notin DOMAIN leaves
     THEN /\ res' = reply("updateLeaveStatus", call.actor, call.id, 500, "Server error")
          /\ UNCHANGED leaves
     ELSE /\ leaves' = [leaves EXCEPT
                          ![call.id] = savePaths(leaves[call.id], call.leave, preSave(leave))]
          /\ res' = reply("updateLeaveStatus", call.actor, call.id, 200, "none")
  /\ resume(c)
  /\ UNCHANGED <<nextId, calls>>

\* updateLeave up to the end of `await testLeave.checkOverlap()`
updateLeaveFind(actor, id, body) ==
  /\ calls' = calls + 1
  /\ UNCHANGED <<leaves, nextId>>
  /\ IF id \notin DOMAIN leaves
     THEN /\ res' = reply("updateLeave", actor, id, 404, "not found")
          /\ UNCHANGED inflight
     ELSE IF isProcessed(leaves[id])
     THEN /\ res' = reply("updateLeave", actor, id, 400, "processed")
          /\ UNCHANGED inflight
     ELSE IF notAuthorized(actor, leaves[id])
     THEN /\ res' = reply("updateLeave", actor, id, 403, "not authorized")
          /\ UNCHANGED inflight
     ELSE LET fields == fieldsToUpdate(body)
              testLeave == fields @@ leaves[id] IN
          IF datesChanged(fields) /\ checkOverlap(testLeave)
          THEN /\ res' = reply("updateLeave", actor, id, 400, "overlapping")
               /\ UNCHANGED inflight
          ELSE /\ suspend(calls + 1, [op |-> "updateLeave", actor |-> actor, id |-> id,
                                       fields |-> fields])
               /\ UNCHANGED res

\* updateLeave from `await Leave.findByIdAndUpdate` on; an id that is no
\* longer stored gives null, answered 200 with data null
updateLeaveWrite(c) ==
  /\ c \in DOMAIN inflight /\ inflight[c].op = "updateLeave"
  /\ LET call == inflight[c] IN
     IF ~validateUpdate(call.fields)
     THEN /\ res' = reply("updateLeave", call.actor, call.id, 500, "Server error")
          /\ UNCHANGED leaves
     ELSE /\ leaves' = IF call.id \in DOMAIN leaves
                       THEN [leaves EXCEPT ![call.id] = call.fields @@ leaves[call.id]]
                       ELSE leaves
          /\ res' = reply("updateLeave", call.actor, call.id, 200, "none")
  /\ resume(c)
  /\ UNCHANGED <<nextId, calls>>

\* deleteLeave up to the end of `await Leave.findById`
deleteLeaveFind(actor, id) ==
  /\ calls' = calls + 1
  /\ UNCHANGED <<leaves, nextId>>
  /\ IF id \notin DOMAIN leaves
     THEN /\ res' = reply("deleteLeave", actor, id, 404, "not found")
          /\ UNCHANGED inflight
     ELSE IF isProcessed(leaves[id])
     THEN /\ res' = reply("deleteLeave", actor, id, 400, "processed")
          /\ UNCHANGED inflight
     ELSE IF notAuthorized(actor, leaves[id])
     THEN /\ res' = reply("deleteLeave", actor, id, 403, "not authorized")
          /\ UNCHANGED inflight
     ELSE /\ suspend(calls + 1, [op |-> "deleteLeave", actor |-> actor, id |-> id])
          /\ UNCHANGED res

\* deleteLeave from `await leave.deleteOne()` on
deleteLeaveDelete(c) ==
  /\ c \in DOMAIN inflight /\ inflight[c].op = "deleteLeave"
  /\ LET call == inflight[c] IN
     /\ leaves' = [i \in DOMAIN leaves \ {call.id} |-> leaves[i]]
     /\ res' = reply("deleteLeave", call.actor, call.id, 200, "none")
  /\ resume(c)
  /\ UNCHANGED <<nextId, calls>>

\* a new call may begin
mayBegin == calls < MaxCalls /\ Cardinality(DOMAIN inflight) < MaxInflight

NextAsync ==
  \/ \E actor \in Users, body \in CreateBodies :
       /\ mayBegin /\ nextId =< MaxLeaves /\ createLeaveCheck(actor, body)
       /\ UNCHANGED <<attendance, clock>>
  \/ \E actor \in Users, id \in Ids, body \in StatusBodies :
       /\ mayBegin /\ updateLeaveStatusFind(actor, id, body)
       /\ UNCHANGED <<attendance, clock>>
  \/ \E actor \in Users, id \in Ids, body \in UpdateBodies :
       /\ mayBegin /\ updateLeaveFind(actor, id, body)
       /\ UNCHANGED <<attendance, clock>>
  \/ \E actor \in Users, id \in Ids :
       /\ mayBegin /\ deleteLeaveFind(actor, id)
       /\ UNCHANGED <<attendance, clock>>
  \/ \E c \in DOMAIN inflight : createLeaveSave(c) /\ UNCHANGED <<attendance, clock>>
  \/ \E c \in DOMAIN inflight : updateLeaveStatusSave(c) /\ UNCHANGED <<attendance, clock>>
  \/ \E c \in DOMAIN inflight : updateLeaveWrite(c) /\ UNCHANGED <<attendance, clock>>
  \/ \E c \in DOMAIN inflight : deleteLeaveDelete(c) /\ UNCHANGED <<attendance, clock>>

SpecAsync == Init /\ [][NextAsync]_vars

\* The interleaved server with createLeave calls only.
NextRace ==
  \/ \E actor \in Users, body \in CreateBodies :
       /\ mayBegin /\ nextId =< MaxLeaves /\ createLeaveCheck(actor, body)
       /\ UNCHANGED <<attendance, clock>>
  \/ \E c \in DOMAIN inflight : createLeaveSave(c) /\ UNCHANGED <<attendance, clock>>

SpecRace == Init /\ [][NextRace]_vars

\* ------------------------------------------------ checkOverlap by itself
\* A store of one request, pending or approved, made by a valid create (and a
\* decision), and calls of checkOverlap on the documents valid creates build.
ValidCreateBodies == {body \in CreateBodies : validateLeaveApplication(body)}

InitOverlap ==
  /\ \E employee \in Users, body \in ValidCreateBodies, status \in {"pending", "approved"} :
       leaves = (1 :> IF status = "pending"
                      THEN preSave(newLeave(employee, body, 1))
                      ELSE decide(preSave(newLeave(employee, body, 1)), "admin1",
                                  [status |-> "approved"]))
  /\ nextId = 2
  /\ calls = 0
  /\ res = reply("none", "emp1", 0, 0, "none")
  /\ inflight = <<>>
  /\ attendance = <<>>
  /\ clock = 0

\* await this.checkOverlap(): the answer carries the interval asked about
overlapQuery(this) ==
  /\ calls' = calls + 1
  /\ res' = reply("checkOverlap", this.employee, this._id, 200, "none")
              @@ [this |-> [startDate |-> this.startDate, endDate |-> this.endDate],
                  data |-> checkOverlap(this)]
  /\ UNCHANGED <<leaves, nextId, inflight, attendance, clock>>

NextOverlap ==
  \E actor \in Users, body \in ValidCreateBodies :
    calls < MaxCalls /\ overlapQuery(newLeave(actor, body, nextId))

SpecOverlap == InitOverlap /\ [][NextOverlap]_vars

\* ------------------------------------------------ the day count by itself
\* Timestamps at midnight and at noon of the days 1..MaxSpan; Day(1) stands
\* for 2024-01-01, so Day(5) is 2024-01-05.
HalfDay == MsPerDay \div 2
Stamps == {h * HalfDay : h \in 2..(2 * MaxSpan + 1)}
wholeDay(t) == t % MsPerDay = 0

\* The count of createLeave for the two dates of a body, and the count the
\* pre('save') hook leaves on a document of those dates, whatever it held.
dayCount(startDate, endDate, stale) ==
  /\ res' = reply("totalDays", "emp1", 0, 200, "none")
              @@ [startDate |-> startDate, endDate |-> endDate, stale |-> stale,
                  created |-> createTotalDays(startDate, endDate),
                  saved |-> preSave([startDate |-> startDate, endDate |-> endDate,
                                     totalDays |-> stale]).totalDays]
  /\ UNCHANGED <<leaves, nextId, calls, inflight, attendance, clock>>

NextDays ==
  \E startDate \in Stamps, endDate \in Stamps, stale \in {1, MaxTotalDays} :
    dayCount(startDate, endDate, stale)

SpecDays == Init /\ [][NextDays]_vars

\* ------------------------------------ attendanceController.js: clockIn
\* new Date(): the clock counts half days
nowMs == clock * HalfDay
\* new Date(now.getFullYear(), now.getMonth(), now.getDate())
startOfDay(t) == (t \div MsPerDay) * MsPerDay
\* new Date(now.getFullYear(), now.getMonth(), now.getDate() + 1)
endOfDay(t) == startOfDay(t) + MsPerDay

\* validateAttendanceClockIn: location is optional, of at most 100 characters
validateAttendanceClockIn(body) ==
  has(body, "location") => body.location =< MaxLocationLen

\* Attendance.findOne({employee, date: {$gte: startOfDay, $lt: endOfDay}})
existingAttendance(employee, from, to) ==
  {i \in DOMAIN attendance :
     /\ attendance[i].employee = employee
     /\ attendance[i].date >= from
     /\ attendance[i].date < to}

\* the unique index on (employee, date): the keys equal to those of doc
duplicateKey(doc) ==
  {i \in DOMAIN attendance :
     attendance[i].employee = doc.employee /\ attendance[i].date = doc.date}

clockInReply(actor, date, code, error) ==
  reply("clockIn", actor, 0, code, error) @@ [date |-> date]

\* clockIn up to the end of `await Attendance.findOne`
clockInFind(actor, body) ==
  /\ calls' = calls + 1
  /\ UNCHANGED <<leaves, nextId, attendance, clock>>
  /\ IF ~validateAttendanceClockIn(body)
     THEN /\ res' = clockInReply(actor, startOfDay(nowMs), 400, "Validation failed")
          /\ UNCHANGED inflight
     ELSE IF existingAttendance(actor, startOfDay(nowMs), endOfDay(nowMs)) # {}
     THEN /\ res' = clockInReply(actor, startOfDay(nowMs), 400,
                                 "Already clocked in for today")
          /\ UNCHANGED inflight
     ELSE /\ suspend(calls + 1,
                     [op |-> "clockIn", actor |-> actor, id |-> 0,
                      doc |-> [employee |-> actor, date |-> startOfDay(nowMs),
                               clockIn |-> nowMs]
                                @@ (IF has(body, "location")
                                    THEN [location |-> body.location] ELSE NoBody)])
          /\ UNCHANGED res

\* an insert into a collection without the unique index
clockInCreateNoIndex(c) ==
  /\ c \in DOMAIN inflight /\ inflight[c].op = "clockIn"
  /\ attendance' = (c :> inflight[c].doc) @@ attendance
  /\ res' = clockInReply(inflight[c].actor, inflight[c].doc.date, 201, "none")
  /\ resume(c)
  /\ UNCHANGED <<leaves, nextId, calls, clock>>

\* clockIn from `await Attendance.create` on: the insert, refused by the unique
\* index when the collection holds the key, and the answer
clockInCreate(c) ==
  /\ c \in DOMAIN inflight /\ inflight[c].op = "clockIn"
  /\ LET call == inflight[c] IN
     IF duplicateKey(call.doc) # {}
     THEN /\ res' = clockInReply(call.actor, call.doc.date, 500, "Server error")
          /\ UNCHANGED attendance
     ELSE /\ attendance' = (c :> call.doc) @@ attendance
          /\ res' = clockInReply(call.actor, call.doc.date, 201, "none")
  /\ resume(c)
  /\ UNCHANGED <<leaves, nextId, calls, clock>>

\* time passes
tick ==
  /\ clock < MaxClock
  /\ clock' = clock + 1
  /\ UNCHANGED <<leaves, nextId, calls, res, inflight, attendance>>

ClockInBodies == {NoBody, [location |-> MaxLocationLen], [location |-> MaxLocationLen + 1]}

NextClock ==
  \/ \E actor \in Users, body \in ClockInBodies :
       mayBegin /\ clockInFind(actor, body)
  \/ \E c \in DOMAIN inflight : clockInCreate(c)
  \/ tick

SpecClock == Init /\ [][NextClock]_vars

\* The same server, followed for one call more.
NextDeep ==
  \/ \E actor \in Users, body \in CreateBodies :
       /\ calls < MaxCalls + 1 /\ nextId =< MaxLeaves /\ createLeave(actor, body)
       /\ UNCHANGED <<inflight, attendance, clock>>
  \/ \E actor \in Users, id \in Ids, body \in StatusBodies :
       /\ calls < MaxCalls + 1 /\ updateLeaveStatus(actor, id, body)
       /\ UNCHANGED <<inflight, attendance, clock>>
  \/ \E actor \in Users, id \in Ids, body \in UpdateBodies :
       /\ calls < MaxCalls + 1 /\ updateLeave(actor, id, body)
       /\ UNCHANGED <<inflight, attendance, clock>>
  \/ \E actor \in Users, id \in Ids :
       /\ calls < MaxCalls + 1 /\ deleteLeave(actor, id)
       /\ UNCHANGED <<inflight, attendance, clock>>

SpecDeep == Init /\ [][NextDeep]_vars

\* ======================================================== properties
\* The outcomes of the interface, as the handlers answer them.
StateConflict(r) == r.code = 400 /\ r.error = "processed"
OverlapConflict(r) == r.code = 400 /\ r.error = "overlapping"
ValidationError(r) == r.code = 400 /\ r.error = "Validation failed"
Succeeded(r) == r.code \in {200, 201}
Forbidden(r) == r.code = 403 /\ r.error = "not authorized"
NotFound(r) == r.code = 404 /\ r.error = "not found"

\* An active request occupies calendar days.
active(l) == l.status \in {"pending", "approved"}

\* The inclusive intervals [a.startDate, a.endDate] and [b.startDate, b.endDate]
\* have a day in common.
SharesDay(a, b) ==
  \E d \in Dates :
    /\ a.startDate =< d /\ d =< a.endDate
    /\ b.startDate =< d /\ d =< b.endDate

\* The days of the inclusive interval [s, e], counted one by one.
InclusiveDaySpan(s, e) == Cardinality({d \in Dates : s =< d /\ d =< e})

\* The caller may change the request: its owner, or an admin.
mayMutate(actor, l) == actor = l.employee \/ role(actor) = "admin"

\* C1: no two pending or approved requests of one employee have overlapping
\* inclusive [startDate, endDate] intervals, after any sequence of calls.
C1_NoActiveOverlap ==
  \A i \in DOMAIN leaves, j \in DOMAIN leaves :
    (i # j /\ leaves[i].employee = leaves[j].employee
       /\ active(leaves[i]) /\ active(leaves[j]))
      => ~SharesDay(leaves[i], leaves[j])

\* C2: a decision (approved or rejected) by an admin on a request that is not
\* pending fails with StateConflict and leaves the store unchanged.
C2_DecideNeedsPending ==
  [][(/\ res'.op = "updateLeaveStatus"
      /\ role(res'.actor) = "admin"
      /\ res'.id \in DOMAIN leaves
      /\ leaves[res'.id].status # "pending")
       => \A body \in StatusBodies :
            (/\ body.status \in DecisionStatuses
             /\ updateLeaveStatus(res'.actor, res'.id, body))
              => (StateConflict(res') /\ leaves' = leaves)]_vars

\* C3: an edit or a delete of a request that is approved, rejected or
\* cancelled fails with StateConflict for every caller and changes nothing.
C3_ProcessedIsFrozen ==
  [][(/\ res'.op \in {"updateLeave", "deleteLeave"}
      /\ res'.id \in DOMAIN leaves
      /\ leaves[res'.id].status \in {"approved", "rejected", "cancelled"})
       => (StateConflict(res') /\ leaves' = leaves)]_vars

\* the requester tried to delete the request an admin approved, and was refused
C3_Witness ==
  /\ res.op = "deleteLeave" /\ StateConflict(res)
  /\ res.id \in DOMAIN leaves
  /\ leaves[res.id].status = "approved"
  /\ role(leaves[res.id].approvedBy) = "admin"
  /\ leaves[res.id].employee = res.actor
  /\ role(res.actor) # "admin"

\* C4: a create with valid input and no overlapping active request of the
\* caller adds exactly one request, pending, with totalDays the inclusive day
\* span of its dates, and leaves every stored request unchanged.
C4_CreateAddsOnePending ==
  [][res'.op = "createLeave"
       => \A body \in CreateBodies :
            (/\ validateLeaveApplication(body)
             /\ ~\E i \in DOMAIN leaves :
                   /\ leaves[i].employee = res'.actor
                   /\ active(leaves[i])
                   /\ SharesDay(leaves[i], body)
             /\ createLeave(res'.actor, body))
              => (/\ res'.code = 201
                  /\ nextId \notin DOMAIN leaves
                  /\ DOMAIN leaves' = DOMAIN leaves \cup {nextId}
                  /\ leaves'[nextId].employee = res'.actor
                  /\ leaves'[nextId].status = "pending"
                  /\ leaves'[nextId].totalDays
                       = InclusiveDaySpan(body.startDate, body.endDate)
                  /\ \A i \in DOMAIN leaves : leaves'[i] = leaves[i])]_vars

\* C5: a create with otherwise valid input whose interval shares a day with a
\* pending or approved request of the caller, be it only an endpoint day,
\* fails with OverlapConflict and adds nothing.
C5_OverlappingCreateRefused ==
  [][res'.op = "createLeave"
       => \A i \in DOMAIN leaves :
            (leaves[i].employee = res'.actor /\ active(leaves[i]))
              => \A body \in CreateBodies :
                   (/\ validateLeaveApplication(body)
                    /\ SharesDay(leaves[i], body)
                    /\ createLeave(res'.actor, body))
                     => (OverlapConflict(res') /\ leaves' = leaves)]_vars

\* a create was refused as overlapping, the caller holds days 1..2, and a
\* create for days 2..3, which shares the endpoint day 2 only, is refused
C5_Witness ==
  /\ res.op = "createLeave" /\ OverlapConflict(res)
  /\ \E i \in DOMAIN leaves :
       /\ leaves[i].employee = res.actor
       /\ leaves[i].status = "pending"
       /\ leaves[i].startDate = Day(1) /\ leaves[i].endDate = Day(2)
       /\ \A j \in DOMAIN leaves : j = i \/ leaves[j].employee # res.actor
  /\ ENABLED (/\ createLeave(res.actor, [leaveType |-> "annual", startDate |-> Day(2),
                                         endDate |-> Day(3), reason |-> MinReasonLen])
              /\ OverlapConflict(res')
              /\ leaves' = leaves)

\* C6: rejecting a pending request without a rejectionReason fails with
\* ValidationError and the request stays pending.
C6_RejectNeedsReason ==
  [][(/\ res'.op = "updateLeaveStatus"
      /\ role(res'.actor) = "admin"
      /\ res'.id \in DOMAIN leaves
      /\ leaves[res'.id].status = "pending"
      /\ updateLeaveStatus(res'.actor, res'.id, [status |-> "rejected"]))
       => (ValidationError(res') /\ leaves' = leaves)]_vars

\* C7: every stored request has totalDays equal to the inclusive day span of
\* its startDate and endDate.
C7_TotalDaysDerived ==
  \A i \in DOMAIN leaves :
    leaves[i].startDate =< leaves[i].endDate
      => leaves[i].totalDays = InclusiveDaySpan(leaves[i].startDate, leaves[i].endDate)

\* C8: every stored request has endDate >= startDate.
C8_EndNotBeforeStart ==
  \A i \in DOMAIN leaves : leaves[i].endDate >= leaves[i].startDate

\* the interval a request has once the dates of a body are applied
merged(l, body) ==
  [startDate |-> IF has(body, "startDate") THEN body.startDate ELSE l.startDate,
   endDate |-> IF has(body, "endDate") THEN body.endDate ELSE l.endDate]

\* j is another active request of the employee of request id
otherActive(id, j) ==
  /\ j # id
  /\ leaves[j].employee = leaves[id].employee
  /\ active(leaves[j])

\* another active request of the same employee shares a day with the interval
otherOverlaps(id, interval) ==
  \E j \in DOMAIN leaves : otherActive(id, j) /\ SharesDay(leaves[j], interval)

\* C9: an edit of the dates of a pending request, by its owner or an admin,
\* succeeds when no other active request of that employee overlaps the new
\* interval: the request's own stored interval never blocks it.
C9_EditNotSelfBlocked ==
  [][(/\ res'.op = "updateLeave"
      /\ res'.id \in DOMAIN leaves
      /\ leaves[res'.id].status = "pending"
      /\ mayMutate(res'.actor, leaves[res'.id]))
       => \A body \in UpdateBodies :
            (/\ DOMAIN body # {} /\ DOMAIN body \subseteq {"startDate", "endDate"}
             /\ ~otherOverlaps(res'.id, merged(leaves[res'.id], body))
             /\ updateLeave(res'.actor, res'.id, body))
              => Succeeded(res')]_vars

\* C10: an edit that changes the dates of a pending request so that the new
\* interval overlaps another active request of the same employee fails with
\* OverlapConflict, and no field of the call is persisted.
C10_OverlappingEditAborts ==
  [][(/\ res'.op = "updateLeave"
      /\ res'.id \in DOMAIN leaves
      /\ leaves[res'.id].status = "pending"
      /\ mayMutate(res'.actor, leaves[res'.id]))
       => \A j \in DOMAIN leaves :
            otherActive(res'.id, j)
              => \A body \in UpdateBodies :
                   (/\ (has(body, "startDate") \/ has(body, "endDate"))
                    /\ SharesDay(leaves[j], merged(leaves[res'.id], body))
                    /\ updateLeave(res'.actor, res'.id, body))
                     => (OverlapConflict(res') /\ leaves' = leaves)]_vars

\* an edit was refused as overlapping, and an edit of that request that sends
\* a new leaveType with the overlapping dates is refused with nothing changed
C10_Witness ==
  /\ res.op = "updateLeave" /\ OverlapConflict(res)
  /\ res.id \in DOMAIN leaves
  /\ leaves[res.id].status = "pending"
  /\ leaves[res.id].leaveType = "annual"
  /\ \E j \in DOMAIN leaves :
       /\ j # res.id /\ leaves[j].employee = leaves[res.id].employee
       /\ active(leaves[j])
       /\ ENABLED (/\ updateLeave(res.actor, res.id,
                                  [leaveType |-> "sick", startDate |-> leaves[j].startDate])
                   /\ otherOverlaps(res.id, [startDate |-> leaves[j].startDate,
                                             endDate |-> leaves[res.id].endDate])
                   /\ OverlapConflict(res')
                   /\ leaves' = leaves)

C12_StatusOnlyByAdminDecision ==
  [][\A i \in DOMAIN leaves \cap DOMAIN leaves' :
       leaves'[i].status # leaves[i].status
         => (res'.op = "updateLeaveStatus" /\ role(res'.actor) = "admin")]_vars

\* an employee sent a status in an edit of their own pending request: the edit
\* was answered 200 and the request is still pending
C12_Witness ==
  /\ res.op = "updateLeave" /\ Succeeded(res)
  /\ role(res.actor) # "admin"
  /\ res.id \in DOMAIN leaves
  /\ leaves[res.id].status = "pending"
  /\ ENABLED (/\ updateLeave(res.actor, res.id, [status |-> "approved"])
              /\ Succeeded(res')
              /\ leaves'[res.id].status = "pending")

\* C13: a request created by createLeave belongs to the caller, whatever the
\* body contains: its employee is the caller's id.
C13_CreatedForCaller ==
  [][res'.op = "createLeave"
       => \A i \in DOMAIN leaves' \ DOMAIN leaves :
            leaves'[i].employee = res'.actor]_vars

\* an employee has created a request, and a create of theirs whose body names
\* the admin as employee stores a request of the caller
C13_Witness ==
  /\ res.op = "createLeave" /\ res.code = 201
  /\ role(res.actor) # "admin"
  /\ leaves[res.id].employee = res.actor
  /\ ENABLED (/\ createLeave(res.actor,
                              [leaveType |-> "annual", startDate |-> Day(MaxDay),
                               endDate |-> Day(MaxDay), reason |-> MinReasonLen,
                               employee |-> "admin1"])
              /\ res'.code = 201
              /\ leaves'[nextId].employee = res.actor)

\* C14: a create whose leaveType is outside the enumeration, whose reason is
\* shorter than 10 or longer than 500 characters, or whose endDate is before
\* its startDate fails with ValidationError and adds no request.
C14_InvalidCreateRefused ==
  [][res'.op = "createLeave"
       => \A body \in CreateBodies :
            (/\ \/ body.leaveType \notin LeaveTypes
                \/ body.reason < MinReasonLen
                \/ body.reason > MaxReasonLen
                \/ body.endDate < body.startDate
             /\ createLeave(res'.actor, body))
              => (ValidationError(res') /\ leaves' = leaves)]_vars

\* a create was refused as invalid while the store holds a request, and a
\* create with endDate before startDate is refused the same way
C14_Witness ==
  /\ res.op = "createLeave" /\ ValidationError(res)
  /\ DOMAIN leaves # {}
  /\ ENABLED (/\ createLeave(res.actor, [leaveType |-> "annual", startDate |-> Day(2),
                                         endDate |-> Day(1), reason |-> MinReasonLen])
              /\ ValidationError(res')
              /\ leaves' = leaves)

\* the decision timestamps and deciding actors a document carries
DecisionFields == {"approvedDate", "approvedBy", "rejectedDate", "rejectedBy"}
decisionPart(l) == [k \in DOMAIN l \cap DecisionFields |-> l[k]]

\* C18: the decision timestamp and the deciding actor are written once, at
\* the transition out of pending: a pending request carries none of them, and
\* no call writes them on a request that is no longer pending.
C18_DecisionWrittenOnce ==
  /\ [](\A i \in DOMAIN leaves :
          leaves[i].status = "pending" => DOMAIN decisionPart(leaves[i]) = {})
  /\ [][\A i \in DOMAIN leaves \cap DOMAIN leaves' :
          leaves[i].status # "pending"
            => decisionPart(leaves'[i]) = decisionPart(leaves[i])]_vars

\* C19: a stored request has a rejectionReason only if its status is rejected.
C19_ReasonOnlyIfRejected ==
  \A i \in DOMAIN leaves :
    has(leaves[i], "rejectionReason") => leaves[i].status = "rejected"

\* C20: a decision by an admin on a pending request (a rejection with its
\* reason supplied) sets the status, the time and the acting admin: approved
\* sets approvedDate, approvedBy and no rejection field; rejected sets
\* rejectedDate, rejectedBy and the supplied rejectionReason; the employee,
\* dates, leaveType and reason of the request and every other request are
\* unchanged.
C20_DecideEffect ==
  [][(/\ res'.op = "updateLeaveStatus"
      /\ role(res'.actor) = "admin"
      /\ res'.id \in DOMAIN leaves
      /\ leaves[res'.id].status = "pending")
       => \A body \in StatusBodies :
            (/\ body.status \in DecisionStatuses
             /\ body.status = "rejected" => has(body, "rejectionReason")
             /\ updateLeaveStatus(res'.actor, res'.id, body))
              => /\ Succeeded(res')
                 /\ DOMAIN leaves' = DOMAIN leaves
                 /\ LET old == leaves[res'.id]
                        new == leaves'[res'.id] IN
                      /\ new.status = body.status
                      /\ body.status = "approved"
                           => /\ has(new, "approvedDate") /\ new.approvedDate = now
                              /\ has(new, "approvedBy") /\ new.approvedBy = res'.actor
                              /\ DOMAIN new \cap {"rejectedDate", "rejectedBy",
                                                  "rejectionReason"} = {}
                      /\ body.status = "rejected"
                           => /\ has(new, "rejectedDate") /\ new.rejectedDate = now
                              /\ has(new, "rejectedBy") /\ new.rejectedBy = res'.actor
                              /\ has(new, "rejectionReason")
                              /\ new.rejectionReason = body.rejectionReason
                      /\ new.employee = old.employee
                      /\ new.startDate = old.startDate /\ new.endDate = old.endDate
                      /\ new.leaveType = old.leaveType /\ new.reason = old.reason
                 /\ \A j \in DOMAIN leaves \ {res'.id} : leaves'[j] = leaves[j]]_vars

\* the stored requests a statistics call is about: of the employee if one is
\* given, and fully inside the window if both its bounds are given
Matching(args) ==
  {i \in DOMAIN leaves :
     /\ has(args, "employeeId") => leaves[i].employee = args.employeeId
     /\ (has(args, "startDate") /\ has(args, "endDate"))
          => (leaves[i].startDate >= args.startDate /\ leaves[i].endDate =< args.endDate)}

\* the totalDays of the requests of M, added up id by id over the ids 1..n
RECURSIVE DaysUpTo(_, _)
DaysUpTo(M, n) ==
  IF n = 0 THEN 0
  ELSE (IF n \in M THEN leaves[n].totalDays ELSE 0) + DaysUpTo(M, n - 1)

WithStatus(M, st) == {i \in M : leaves[i].status = st}

Summary(M) ==
  [totalLeaves |-> Cardinality(M),
   approvedLeaves |-> Cardinality(WithStatus(M, "approved")),
   pendingLeaves |-> Cardinality(WithStatus(M, "pending")),
   rejectedLeaves |-> Cardinality(WithStatus(M, "rejected")),
   totalDays |-> DaysUpTo(M, nextId),
   approvedDays |-> DaysUpTo(WithStatus(M, "approved"), nextId),
   pendingDays |-> DaysUpTo(WithStatus(M, "pending"), nextId)]

\* C15: getLeaveStats returns the counts and the totalDays sums over exactly
\* the stored requests that match the filter (employee only if employeeId is
\* given, window only if both bounds are given, a request kept only if fully
\* inside it); with no matching request every field is 0; the result always
\* has the seven fields.
C15_StatsOverMatching ==
  [][res'.op = "getLeaveStats"
       => \A args \in StatsArgs :
            leaveStats(args)
              => /\ res'.data = Summary(Matching(args))
                 /\ DOMAIN res'.data = DOMAIN NoStats
                 /\ Matching(args) = {} => \A k \in DOMAIN NoStats : res'.data[k] = 0]_vars

\* a statistics call counted one request of a store of two: with the window
\* day 1..day 2, the request on day 1 is counted and the request on days
\* 2..3, which overlaps the window without lying inside it, is not
C15_Witness ==
  /\ res.op = "getLeaveStats"
  /\ res.data.totalLeaves = 1
  /\ \E i \in DOMAIN leaves, j \in DOMAIN leaves :
       /\ leaves[i].startDate = Day(1) /\ leaves[i].endDate = Day(1)
       /\ leaves[j].startDate = Day(2) /\ leaves[j].endDate = Day(3)
       /\ DOMAIN leaves = {i, j}
       /\ getLeaveStats([startDate |-> Day(1), endDate |-> Day(2)]).totalLeaves = 1
       /\ getLeaveStats([startDate |-> Day(1), endDate |-> Day(2)]).totalDays
            = leaves[i].totalDays

\* C16: two creates of one employee with overlapping dates that both make
\* their overlap check before either saves both succeed: the save of a create
\* that passed its check inserts the request as pending although an active
\* request of the same employee that shares a day with it is stored by then.
C16_CheckAndInsertNotAtomic ==
  [][\A c \in DOMAIN inflight :
       (/\ inflight[c].op = "createLeave"
        /\ \E i \in DOMAIN leaves :
              /\ leaves[i].employee = inflight[c].leave.employee
              /\ active(leaves[i])
              /\ SharesDay(leaves[i], inflight[c].leave)
        /\ createLeaveSave(c))
         => (/\ res'.code = 201
             /\ DOMAIN leaves' = DOMAIN leaves \cup {inflight[c].id}
             /\ leaves'[inflight[c].id].status = "pending")]_vars

\* both of the two calls made were creates and both were answered 201: two
\* pending requests of one employee that share a day are stored
C16_Witness ==
  /\ calls = 2 /\ inflight = <<>>
  /\ res.op = "createLeave" /\ res.code = 201
  /\ \E i \in DOMAIN leaves, j \in DOMAIN leaves :
       /\ i # j /\ DOMAIN leaves = {i, j}
       /\ leaves[i].employee = leaves[j].employee
       /\ leaves[i].status = "pending" /\ leaves[j].status = "pending"
       /\ SharesDay(leaves[i], leaves[j])

\* C17: an edit or a delete never takes effect on a request whose stored
\* status is approved or rejected at the moment of its write, however its
\* read and its write interleave with the other calls.
C17_NoWriteOnProcessed ==
  [][\A c \in DOMAIN inflight :
       (/\ inflight[c].op \in {"updateLeave", "deleteLeave"}
        /\ inflight[c].id \in DOMAIN leaves
        /\ leaves[inflight[c].id].status \in {"approved", "rejected"}
        /\ (updateLeaveWrite(c) \/ deleteLeaveDelete(c)))
         => leaves' = leaves]_vars

\* C21: for a candidate A = [a1, a2] and a stored B = [b1, b2] with a1 <= a2
\* and b1 <= b2, the three clauses of checkOverlap match exactly when
\* a1 <= b2 and b1 <= a2, they match the same with A and B swapped, and the
\* query answers so for a stored active request of the same employee.
C21_ClausesAreIntervalOverlap ==
  [][res'.op = "checkOverlap"
       => \A i \in DOMAIN leaves :
            LET B == leaves[i]
                A == res'.this IN
            (A.startDate =< A.endDate /\ B.startDate =< B.endDate)
              => /\ overlapClauses(B, A)
                      <=> (A.startDate =< B.endDate /\ B.startDate =< A.endDate)
                 /\ overlapClauses(A, B) <=> overlapClauses(B, A)
                 /\ (B.employee = res'.actor /\ DOMAIN leaves = {i})
                      => (res'.data
                            <=> (A.startDate =< B.endDate /\ B.startDate =< A.endDate))]_vars

\* the query found the stored request, which lies strictly inside the interval
\* asked about
C21_Witness ==
  /\ res.op = "checkOverlap" /\ res.data
  /\ \E i \in DOMAIN leaves :
       /\ leaves[i].employee = res.actor
       /\ res.this.startDate < leaves[i].startDate
       /\ leaves[i].endDate < res.this.endDate

\* C22: rejected and cancelled requests and requests of other employees never
\* block: a create, or an edit of the dates of a pending request, is refused
\* with OverlapConflict only if a pending or approved request of the same
\* employee (other than the edited one) shares a day with its interval.
C22_OnlyActiveOwnBlock ==
  [][OverlapConflict(res')
       => /\ res'.op = "createLeave"
               => \A body \in CreateBodies :
                    (validateLeaveApplication(body) /\ createLeave(res'.actor, body))
                      => \E i \in DOMAIN leaves :
                           /\ leaves[i].employee = res'.actor
                           /\ active(leaves[i])
                           /\ SharesDay(leaves[i], body)
          /\ res'.op = "updateLeave"
               => \A body \in UpdateBodies :
                    updateLeave(res'.actor, res'.id, body)
                      => otherOverlaps(res'.id, merged(leaves[res'.id], body))]_vars

\* C23: no request ever has the status cancelled, and the status of a request
\* changes only in a status decision on that request that was answered 200:
\* there is no other transition.
C23_NoCancelledNoSilentChange ==
  /\ [](\A i \in DOMAIN leaves : leaves[i].status # "cancelled")
  /\ [][\A i \in DOMAIN leaves \cap DOMAIN leaves' :
          leaves'[i].status # leaves[i].status
            => (res'.op = "updateLeaveStatus" /\ res'.id = i /\ Succeeded(res'))]_vars

\* an admin asked for the status cancelled on a pending request and was
\* answered ValidationError, the request still pending
C23_Witness ==
  /\ res.op = "updateLeaveStatus" /\ ValidationError(res)
  /\ role(res.actor) = "admin"
  /\ res.id \in DOMAIN leaves
  /\ leaves[res.id].status = "pending"
  /\ ENABLED (/\ updateLeaveStatus(res.actor, res.id, [status |-> "cancelled"])
              /\ ValidationError(res')
              /\ leaves' = leaves)

\* C24: the employee and the appliedDate of a stored request never change:
\* every call leaves both as they are, whoever calls and whatever the body.
C24_OwnerAndAppliedDateFixed ==
  [][\A i \in DOMAIN leaves \cap DOMAIN leaves' :
       /\ leaves'[i].employee = leaves[i].employee
       /\ leaves'[i].appliedDate = leaves[i].appliedDate]_vars

\* an edit was answered 200, and an edit of that request whose body names
\* another employee and an appliedDate is answered 200 with both unchanged
C24_Witness ==
  /\ res.op = "updateLeave" /\ Succeeded(res)
  /\ res.id \in DOMAIN leaves
  /\ leaves[res.id].employee = "emp1"
  /\ ENABLED (/\ updateLeave(res.actor, res.id,
                              [status |-> "approved", employee |-> "admin1",
                               appliedDate |-> "later"])
              /\ Succeeded(res')
              /\ leaves'[res.id].employee = "emp1"
              /\ leaves'[res.id].appliedDate = now)

\* C26: no call sets the status of an existing request to pending: a request
\* that is approved or rejected never becomes pending again.
C26_NeverBackToPending ==
  [][\A i \in DOMAIN leaves \cap DOMAIN leaves' :
       leaves'[i].status = "pending" => leaves[i].status = "pending"]_vars

\* an admin asked for the status pending on an approved request and was
\* answered ValidationError, the request still approved
C26_Witness ==
  /\ res.op = "updateLeaveStatus" /\ ValidationError(res)
  /\ role(res.actor) = "admin"
  /\ res.id \in DOMAIN leaves
  /\ leaves[res.id].status = "approved"
  /\ ENABLED (/\ updateLeaveStatus(res.actor, res.id, [status |-> "pending"])
              /\ ValidationError(res')
              /\ leaves' = leaves)

\* C27: with calls handled one at a time, a request that is approved or
\* rejected stays in the store with the same employee, dates, leaveType and
\* reason after every call.
C27_ProcessedStays ==
  [][\A i \in DOMAIN leaves :
       leaves[i].status \in {"approved", "rejected"}
         => /\ i \in DOMAIN leaves'
            /\ leaves'[i].employee = leaves[i].employee
            /\ leaves'[i].startDate = leaves[i].startDate
            /\ leaves'[i].endDate = leaves[i].endDate
            /\ leaves'[i].leaveType = leaves[i].leaveType
            /\ leaves'[i].reason = leaves[i].reason]_vars

\* an admin tried to delete a rejected request, which is still stored
C27_Witness ==
  /\ res.op = "deleteLeave" /\ ~Succeeded(res)
  /\ role(res.actor) = "admin"
  /\ res.id \in DOMAIN leaves
  /\ leaves[res.id].status = "rejected"

\* C28: an edit or a delete tests existence, then status, then ownership: an
\* unknown id is answered NotFound; a request that is not pending is answered
\* the status error, also for a caller who is neither owner nor admin;
\* Forbidden is answered only for a pending request.
C28_CheckOrder ==
  [][res'.op \in {"updateLeave", "deleteLeave"}
       => /\ res'.id \notin DOMAIN leaves => NotFound(res')
          /\ (res'.id \in DOMAIN leaves /\ leaves[res'.id].status # "pending")
               => StateConflict(res')
          /\ Forbidden(res')
               => (/\ res'.id \in DOMAIN leaves
                   /\ leaves[res'.id].status = "pending"
                   /\ ~mayMutate(res'.actor, leaves[res'.id]))]_vars

\* an employee tried to delete the approved request of somebody else and was
\* answered the status error, not Forbidden
C28_Witness ==
  /\ res.op = "deleteLeave" /\ StateConflict(res)
  /\ res.id \in DOMAIN leaves
  /\ leaves[res.id].status = "approved"
  /\ ~mayMutate(res.actor, leaves[res.id])

\* C29: after a status decision that was answered 200, the stored totalDays
\* of the request is the day span of its stored dates plus one, also when an
\* earlier edit changed the dates and left totalDays as it was.
C29_TotalDaysAfterDecide ==
  [][(res'.op = "updateLeaveStatus" /\ Succeeded(res'))
       => leaves'[res'.id].totalDays
            = (leaves'[res'.id].endDate - leaves'[res'.id].startDate) \div MsPerDay + 1]_vars

\* an edit left a pending request with a totalDays that is not the span of its
\* dates, and the approval of that request is answered 200 and stores the span
C29_Witness ==
  /\ res.op = "updateLeave" /\ Succeeded(res)
  /\ res.id \in DOMAIN leaves
  /\ leaves[res.id].status = "pending"
  /\ leaves[res.id].startDate < leaves[res.id].endDate
  /\ leaves[res.id].totalDays = 1
  /\ ENABLED (/\ updateLeaveStatus("admin1", res.id, [status |-> "approved"])
              /\ Succeeded(res')
              /\ leaves'[res.id].totalDays
                   = InclusiveDaySpan(leaves[res.id].startDate, leaves[res.id].endDate)
              /\ leaves'[res.id].totalDays > 1)

\* C25: the day count of createLeave and of the pre-save hook counts both
\* endpoints: the two agree; for midnight dates with end >= start the count is
\* the days from start to end plus one, so 1 for start = end and 5 for
\* 2024-01-01..2024-01-05; and the count is at least 1 for every pair of dates.
C25_CountsBothEndpoints ==
  res.op = "totalDays"
    => /\ res.saved = res.created
       /\ res.created >= 1
       /\ (wholeDay(res.startDate) /\ wholeDay(res.endDate) /\ res.endDate >= res.startDate)
            => res.created = (res.endDate - res.startDate) \div MsPerDay + 1
       /\ res.startDate = res.endDate => res.created = 1
       /\ (res.startDate = Day(1) /\ res.endDate = Day(5)) => res.created = 5

\* the count for 2024-01-01..2024-01-05 was computed, and is 5
C25_Witness ==
  /\ res.op = "totalDays"
  /\ res.startDate = Day(1) /\ res.endDate = Day(5)
  /\ res.created = 5 /\ res.saved = 5

\* the records of an employee for the day that starts at date
recordsOf(employee, date) ==
  {i \in DOMAIN attendance :
     attendance[i].employee = employee /\ startOfDay(attendance[i].date) = date}

\* the step answers a clockIn
clockInAnswered ==
  /\ clock' = clock
  /\ DOMAIN inflight' \subseteq DOMAIN inflight
  /\ res'.op = "clockIn"

\* C30: in every interleaving of clockIn calls the store holds at most one
\* attendance record per employee per calendar day; a clockIn by an employee
\* who has a record for the day adds no record and is answered 400 when its
\* check reads the store then, and the 500 of the index error when its check
\* had passed before.
C30_OneRecordPerDay ==
  /\ [](\A employee \in Users, i \in DOMAIN attendance :
          Cardinality(recordsOf(employee, startOfDay(attendance[i].date))) =< 1)
  /\ [][(clockInAnswered /\ recordsOf(res'.actor, res'.date) # {})
         => /\ attendance' = attendance
            /\ IF calls' # calls THEN res'.code = 400
               ELSE res'.code = 500 /\ res'.error = "Server error"]_vars

\* two clockIn calls of one employee both passed the check; the first stored
\* its record and the second was answered the index error, one record stored
C30_Witness ==
  /\ res.op = "clockIn" /\ res.code = 500
  /\ Cardinality(recordsOf(res.actor, res.date)) = 1
  /\ \A c \in DOMAIN inflight : inflight[c].actor # res.actor
====
